---- MODULE Spec2Model ----
(***************************************************************************)
(* The interactive terminal of solana-playground: PgTerminal (the command  *)
(* dispatcher, static) and PgTerm (the session orchestrator) of            *)
(* src/unnamed/part_000, and processDeploy, the deploy command of the      *)
(* candy machine tool, of src/unnamed/part_001.  Strings are sequences of  *)
(* one-character strings.                                                  *)
(* PgShell, PgTty and the shell history live outside src/; their           *)
(* operations are modelled from the specification (sections 3 and 4).      *)
(***************************************************************************)
EXTENDS Integers, Sequences, FiniteSets

VARIABLES
    isOpen,         \* PgTerm.isOpen
    active,         \* PgShell._active
    input,          \* InputLine: text
    cursor,         \* InputLine: cursor offset
    history,        \* History: entries, oldest first
    histCursor,     \* History: cursor, Len(history) = past the newest entry
    saved,          \* in-progress text kept while the history is navigated
    scroll,         \* DisplayBuffer: the lines the last handler moved above the cursor
    cur,            \* DisplayBuffer: the line under the cursor
    cols,           \* DisplayBuffer: cached columns
    rows,           \* DisplayBuffer: cached rows
    fitTimeoutId,   \* PgTerm.fitTimeoutId, 0 = undefined
    timers,         \* ids of the pending reflow callbacks of fit()
    enableTimers,   \* pending 10 ms callbacks of PgTerm.enable()
    reenableTimers, \* pending 1000 ms callbacks of parseCommand
    wasmLoaded,     \* the shell holds a wasm with parseSolana
    connected,      \* PgWallet: the playground wallet is connected
    disabled,       \* disable() was called and enable() has not been called since
    destroyed,      \* destroy() was called: the surface is disposed
    diag,           \* the last diagnostic text converted, and the text returned
    deploy,         \* the run of processDeploy: its position, the cache, the chain
    out             \* the last line handed to the dispatcher, and what came of it

vars == <<isOpen, active, input, cursor, history, histCursor, saved, scroll, cur,
          cols, rows, fitTimeoutId, timers, enableTimers,
          reenableTimers, wasmLoaded, connected, disabled, destroyed,
          diag, deploy, out>>

(***************************************************************************)
(* Bounds of the model.                                                    *)
(***************************************************************************)
MaxInput == 3           \* longest line edited key by key
HistorySize == 2        \* retained history entries
MaxCur == 0             \* a caller writes on a current line up to this length
MaxTimers == 2          \* reflow callbacks pending at once
MaxEnableTimers == 2    \* enable() callbacks pending at once
MaxReenableTimers == 1  \* backend re-enable callbacks pending at once

(***************************************************************************)
(* Text.                                                                   *)
(***************************************************************************)
PROMPT == <<"$", " ">>
NL == "\n"
UNDEF == <<"undefined">>
DEFAULT_TEXT == <<"W", NL, NL, "T">>
HELP_TEXT == <<"C", "O", "M", "M", "A", "N", "D", "S", ":", NL>>

Min(a, b) == IF a < b THEN a ELSE b
Max(a, b) == IF a > b THEN a ELSE b
Last(s) == s[Len(s)]
KeepLast(s, n) == IF Len(s) <= n THEN s ELSE SubSeq(s, Len(s) - n + 1, Len(s))

(***************************************************************************)
(* The session as one record, so that a handler is a composition of the    *)
(* operations it calls.                                                    *)
(***************************************************************************)
NoDiag == [op |-> "none", arg |-> <<>>, threw |-> FALSE, res |-> <<>>]

\* processDeploy has not been called
NoDeploy == [pc |-> "idle"]

NoDispatch == [dispatched |-> FALSE, line |-> <<>>, threw |-> FALSE, matched |-> FALSE,
               published |-> <<>>, invoked |-> <<>>, scheduled |-> 0]

S == [open |-> isOpen, active |-> active, input |-> input, cursor |-> cursor,
      history |-> history, histCursor |-> histCursor, saved |-> saved,
      scroll |-> <<>>, cur |-> cur, cols |-> cols, rows |-> rows,
      enableTimers |-> enableTimers, d |-> NoDispatch]

Set(t) ==
    /\ isOpen' = t.open
    /\ active' = t.active
    /\ input' = t.input
    /\ cursor' = t.cursor
    /\ history' = t.history
    /\ histCursor' = t.histCursor
    /\ saved' = t.saved
    /\ scroll' = t.scroll
    /\ cur' = t.cur
    /\ cols' = t.cols
    /\ rows' = t.rows
    /\ enableTimers' = t.enableTimers

(***************************************************************************)
(* PgTty, the display buffer manager (specification 4.1).  A line is kept  *)
(* unwrapped; the rows it takes follow from cols.                          *)
(***************************************************************************)
RECURSIVE ttyWrite(_, _)
ttyWrite(t, text) ==
    IF text = <<>> THEN t
    ELSE IF Head(text) = NL
         THEN ttyWrite([t EXCEPT !.scroll = Append(t.scroll, t.cur),
                                 !.cur = <<>>], Tail(text))
         ELSE ttyWrite([t EXCEPT !.cur = Append(@, Head(text))], Tail(text))

\* write(text): a no-op before the surface is bound
ttyPrint(t, text) == IF t.open THEN ttyWrite(t, text) ELSE t

ttyClearInput(t) == IF t.open THEN [t EXCEPT !.cur = <<>>] ELSE t

ttyClearCurrentLine(t) == IF t.open THEN [t EXCEPT !.cur = <<>>] ELSE t

ttyClearTty(t) == IF t.open THEN [t EXCEPT !.scroll = <<>>, !.cur = <<>>] ELSE t

ttySetTermSize(t, c, r) == [t EXCEPT !.cols = c, !.rows = r]

ttyGetInput(t) == t.input

ttyGetInputStartsWithPrompt(t) ==
    /\ Len(t.cur) >= Len(PROMPT)
    /\ SubSeq(t.cur, 1, Len(PROMPT)) = PROMPT

\* setInput(input, shouldNotClearInput): renders the line, keeps the cursor in it
ttySetInput(t, text, shouldNotClearInput) ==
    LET a == IF shouldNotClearInput THEN t ELSE ttyClearInput(t)
        b == ttyPrint(a, PROMPT \o text)
    IN  [b EXCEPT !.input = text, !.cursor = Min(t.cursor, Len(text))]

\* read(prefix): starts reading a line behind the prefix
ttyRead(t, prefix) == ttyPrint(t, prefix)

\* rows the rendered current line takes
RenderedRows(t) == IF Len(t.cur) = 0 THEN 1 ELSE (Len(t.cur) + t.cols - 1) \div t.cols

(***************************************************************************)
(* The shell history (specification 3, History).                           *)
(***************************************************************************)
historyPush(t, line) ==
    LET h == IF line = <<>> \/ line = UNDEF THEN t.history
             ELSE KeepLast(Append(t.history, line), HistorySize)
    IN  [t EXCEPT !.history = h, !.histCursor = Len(h), !.saved = <<>>]

\* getPrevious(): [t: the session after the call, v: the entry returned]
historyGetPrevious(t) ==
    IF t.history = <<>> THEN [t |-> t, v |-> UNDEF]
    ELSE LET c == Max(0, t.histCursor - 1)
         IN  [t |-> [t EXCEPT !.histCursor = c,
                              !.saved = IF t.histCursor = Len(t.history)
                                        THEN t.input ELSE @],
              v |-> t.history[c + 1]]

historyGetNext(t) ==
    IF t.histCursor >= Len(t.history) THEN [t |-> t, v |-> t.input]
    ELSE LET c == t.histCursor + 1
         IN  [t |-> [t EXCEPT !.histCursor = c,
                              !.saved = IF c = Len(t.history) THEN <<>> ELSE @],
              v |-> IF c = Len(t.history) THEN t.saved ELSE t.history[c + 1]]

(***************************************************************************)
(* PgShell, the line editor and session controller (specification 4.2).    *)
(***************************************************************************)
isPrompting(t) == t.active

\* prompt(): (re)draws the prompt and the InputLine on the line of the cursor; not
\* when Idle
shellPrompt(t) == IF t.active THEN ttyPrint(ttyClearInput(t), PROMPT \o t.input) ELSE t

\* printAndRestartPrompt(beforePrint), beforePrint writing text
printAndRestartPrompt(t, text) ==
    LET a == ttyClearInput(t)
        b == ttyPrint(a, text)
    IN  ttyPrint(b, PROMPT \o b.input)


(***************************************************************************)
(* PgTerminal, the command dispatcher.                                     *)
(***************************************************************************)
EVT_NAME_TERMINAL_LOG == "terminallog"
EVT_NAME_TERMINAL_STATE == "terminalstate"
EVT_NAME_TERMINAL_ENABLE == "terminalenable"
EVT_NAME_TERMINAL_DISABLE == "terminaldisable"
EVT_NAME_LOAD_WASM == "terminalloadwasm"
EVT_NAME_RUN_LAST_CMD == "terminalrunlastcmd"

HELP == <<"h", "e", "l", "p">>
BUILD == <<"b", "u", "i", "l", "d">>
CONNECT == <<"c", "o", "n", "n", "e", "c", "t">>
DEPLOY == <<"d", "e", "p", "l", "o", "y">>
SOLANA == <<"s", "o", "l", "a", "n", "a">>

\* the payload of a custom event
Signal(evt, arg) == [evt |-> evt, arg |-> arg]

PgTerminal_setTerminalState(action) == Signal(EVT_NAME_TERMINAL_STATE, <<action>>)
PgTerminal_enable == Signal(EVT_NAME_TERMINAL_ENABLE, <<"enabled">>)
PgTerminal_disable == Signal(EVT_NAME_TERMINAL_DISABLE, <<"disabled">>)
PgTerminal_logWasm(msg) == Signal(EVT_NAME_TERMINAL_LOG, msg)
\* loadWasm(pkg) dispatching the disable event in place of the load request
PgTerminal_loadWasm_disableEvent(pkg) == Signal(EVT_NAME_TERMINAL_DISABLE, <<pkg>>)
PgTerminal_loadWasm(pkg) == Signal(EVT_NAME_LOAD_WASM, <<pkg>>)
PgTerminal_runLastCmd == Signal(EVT_NAME_RUN_LAST_CMD, <<>>)

\* String.prototype.trim
WhiteSpace == {" ", NL, "\t"}
RECURSIVE trimStart(_)
trimStart(s) == IF s # <<>> /\ Head(s) \in WhiteSpace THEN trimStart(Tail(s)) ELSE s
RECURSIVE trimEnd(_)
trimEnd(s) ==
    IF s # <<>> /\ Last(s) \in WhiteSpace THEN trimEnd(SubSeq(s, 1, Len(s) - 1)) ELSE s
trim(s) == trimEnd(trimStart(s))

\* cmd.split(" ")?.at(0)
cmdName(cmd) ==
    LET sp == {i \in 1..Len(cmd) : cmd[i] = " "}
    IN  IF sp = {} THEN cmd
        ELSE SubSeq(cmd, 1, (CHOOSE i \in sp : \A j \in sp : i <= j) - 1)

\* PgWallet.checkIsPgConnected()
checkIsPgConnected == connected

\* the arguments without the wallet key bytes
getSolanaCliArgs_noKeypair == <<"endpoint", "commitment">>

\* the arguments after the line: endpoint, commitment, keypairBytes
getSolanaCliArgs == <<"endpoint", "commitment", "keypairBytes">>

\* wasm.parseSolana(cmd, ...args)
parseSolana(cmd, args) == [cmd |-> cmd, args |-> args]

ParseResult(m, p, i, n) ==
    [matched |-> m, published |-> p, invoked |-> i, scheduled |-> n]

\* cmd === "help" without the enable()
helpCommand_noEnable ==
    ParseResult(TRUE, <<PgTerminal_logWasm(HELP_TEXT)>>, <<>>, 0)

\* cmd === "help"
helpCommand ==
    ParseResult(TRUE, <<PgTerminal_logWasm(HELP_TEXT), PgTerminal_enable>>, <<>>, 0)

\* cmd === "build" enabling the terminal as help does
buildCommand_enables ==
    ParseResult(TRUE, <<PgTerminal_setTerminalState("buildStart"), PgTerminal_enable>>,
                <<>>, 0)

\* cmd === "build"
buildCommand ==
    ParseResult(TRUE, <<PgTerminal_setTerminalState("buildStart")>>, <<>>, 0)

\* cmd === "connect"
connectCommand ==
    ParseResult(TRUE, <<PgTerminal_setTerminalState("walletConnectOrSetupStart")>>,
                <<>>, 0)

\* cmd === "deploy" without the connectivity check
deployCommand_unchecked ==
    ParseResult(TRUE, <<PgTerminal_setTerminalState("deployStart")>>, <<>>, 0)

\* cmd === "deploy"
deployCommand ==
    IF checkIsPgConnected
    THEN ParseResult(TRUE, <<PgTerminal_setTerminalState("deployStart")>>, <<>>, 0)
    ELSE ParseResult(TRUE, <<>>, <<>>, 0)

\* cmdName === "solana"
solanaCommand(cmd, wasm) ==
    IF wasm
    THEN IF checkIsPgConnected
         THEN ParseResult(TRUE, <<>>, <<parseSolana(cmd, getSolanaCliArgs)>>, 1)
         ELSE ParseResult(TRUE, <<>>, <<>>, 0)
    ELSE ParseResult(TRUE, <<PgTerminal_loadWasm("SOLANA_CLI")>>, <<>>, 0)

\* parseCommand(cmd, wasm): [matched: the value returned, published: the events
\* dispatched, invoked: the backend calls, scheduled: the setTimeout calls]
parseCommand(line, wasm) ==
    LET cmd == trim(line) IN
    IF cmd = HELP THEN helpCommand
    ELSE IF cmd = BUILD THEN buildCommand
    ELSE IF cmd = CONNECT THEN connectCommand
    ELSE IF cmd = DEPLOY THEN deployCommand
    ELSE IF cmdName(cmd) = SOLANA THEN solanaCommand(cmd, wasm)
    ELSE ParseResult(FALSE, <<>>, <<>>, 0)

\* the dispatch of a submitted line; parseCommand(undefined) throws on trim
Dispatch(line) ==
    IF line = UNDEF
    THEN [NoDispatch EXCEPT !.dispatched = TRUE, !.line = line, !.threw = TRUE]
    ELSE LET r == parseCommand(line, wasmLoaded)
         IN  [dispatched |-> TRUE, line |-> line, threw |-> FALSE,
              matched |-> r.matched, published |-> r.published,
              invoked |-> r.invoked, scheduled |-> r.scheduled]

\* handleReadComplete(): submit
handleReadComplete(t) ==
    [historyPush(t, t.input) EXCEPT !.input = <<>>, !.cursor = 0, !.active = FALSE,
                                    !.d = Dispatch(t.input)]

(***************************************************************************)
(* JavaScript strings: indices count from 0, -1 is "not found", undefined  *)
(* is UNDEF.                                                               *)
(***************************************************************************)
startsWith(s, p) == Len(p) <= Len(s) /\ SubSeq(s, 1, Len(p)) = p
endsWith(s, p) == Len(p) <= Len(s) /\ SubSeq(s, Len(s) - Len(p) + 1, Len(s)) = p

\* s.indexOf(p, from)
indexOf(s, p, from) ==
    LET at == {i \in Max(from, 0)..(Len(s) - Len(p)) : SubSeq(s, i + 1, i + Len(p)) = p}
    IN  IF at = {} THEN -1 ELSE CHOOSE i \in at : \A j \in at : i <= j

includes(s, p) == indexOf(s, p, 0) # -1

\* s.substring(a, b) and s.substring(a): an index below 0 counts as 0, one
\* beyond the end as the length, and the smaller one comes first
Clamp(s, i) == Max(0, Min(i, Len(s)))
substring(s, a, b) ==
    SubSeq(s, Min(Clamp(s, a), Clamp(s, b)) + 1, Max(Clamp(s, a), Clamp(s, b)))
substringFrom(s, a) == SubSeq(s, Clamp(s, a) + 1, Len(s))

\* s[i]: UNDEF beyond the string
charAt(s, i) == IF i >= 0 /\ i < Len(s) THEN <<s[i + 1]>> ELSE UNDEF

\* s.split(sep) for a separator of one character
RECURSIVE split(_, _)
split(s, sep) ==
    LET i == indexOf(s, <<sep>>, 0)
    IN  IF i = -1 THEN <<s>>
        ELSE <<SubSeq(s, 1, i)>> \o split(SubSeq(s, i + 2, Len(s)), sep)

\* parts[i]: UNDEF beyond the array
partAt(parts, i) == IF i >= 0 /\ i < Len(parts) THEN parts[i + 1] ELSE UNDEF

LOWER == <<"a", "b", "c", "d", "e", "f", "g", "h", "i", "j", "k", "l", "m", "n", "o", "p", "q", "r", "s", "t", "u", "v", "w", "x", "y", "z">>
UPPER == <<"A", "B", "C", "D", "E", "F", "G", "H", "I", "J", "K", "L", "M", "N", "O", "P", "Q", "R", "S", "T", "U", "V", "W", "X", "Y", "Z">>
CaseOf(c, from, to) ==
    IF \E i \in DOMAIN from : from[i] = c
    THEN to[CHOOSE i \in DOMAIN from : from[i] = c] ELSE c
toLowerCase(s) == [i \in DOMAIN s |-> CaseOf(s[i], UPPER, LOWER)]
toUpperCase(s) == [i \in DOMAIN s |-> CaseOf(s[i], LOWER, UPPER)]

\* s.replace(p, r) with a string pattern: the first occurrence
replaceFirst(s, p, r) ==
    LET i == indexOf(s, p, 0)
    IN  IF i = -1 THEN s ELSE SubSeq(s, 1, i) \o r \o SubSeq(s, i + Len(p) + 1, Len(s))

\* s.replaceAll(p, r) with a string pattern that is not empty
RECURSIVE replaceAll(_, _, _)
replaceAll(s, p, r) ==
    LET i == indexOf(s, p, 0)
    IN  IF i = -1 THEN s
        ELSE SubSeq(s, 1, i) \o r \o replaceAll(SubSeq(s, i + Len(p) + 1, Len(s)), p, r)

(***************************************************************************)
(* PgTerminal, the diagnostics: convertErrorMessage and editStderr.        *)
(***************************************************************************)
\* the escape sequences are one element each
bold(text) == <<"ESC[1m">> \o text \o <<"ESC[0m">>
success(text) == <<"ESC[1;32m">> \o text \o <<"ESC[0m">>

INSTRUCTION_INDEX == <<"I", "n", "s", "t", "r", "u", "c", "t", "i", "o", "n", " ", "i", "n", "d", "e", "x", ":">>
REASON == <<"R", "e", "a", "s", "o", "n", ":">>
FAILED_TO_SEND == <<"f", "a", "i", "l", "e", "d", " ", "t", "o", " ", "s", "e", "n", "d">>

\* the tables of constants: key and text, in the order of their keys
PROGRAM_ERROR == <<[key |-> <<"1">>, text |-> <<"P", "1">>],
                   [key |-> <<"A">>, text |-> <<"P", "A">>]>>
RPC_ERROR == <<[key |-> <<"r", "p", "c">>, text |-> <<"R">>]>>
SERVER_ERROR == <<[key |-> <<"s", "r", "v">>, text |-> <<"S">>]>>
OTHER_ERROR == <<[key |-> <<"o", "t", "h">>, text |-> <<"O">>]>>

\* for (const key in TABLE) if (test) ...: the first of the entries passing the
\* test, 0 if none does
FirstKey(hit) == IF hit = {} THEN 0 ELSE CHOOSE i \in hit : \A j \in hit : i <= j

\* PgCommon.isInt(str)
isInt(c) == c \in {<<"0">>, <<"1">>, <<"2">>, <<"3">>, <<"4">>, <<"5">>, <<"6">>,
                   <<"7">>, <<"8">>, <<"9">>}

\* what a call gives: the string returned, or a TypeError thrown
Returns(text) == [threw |-> FALSE, res |-> text]
Throws == [threw |-> TRUE, res |-> <<>>]

\* Hex program errors
hexProgramError(msg, i) ==
    LET parts == split(msg, ":")
        seg == partAt(parts, 2)
    IN  IF seg = UNDEF THEN Throws
        ELSE LET c == charAt(seg, Len(seg) - 1)
                 ixIndex == IF ~isInt(c) THEN <<"0">> ELSE c
             IN  Returns(<<NL>> \o bold(INSTRUCTION_INDEX) \o <<" ">> \o ixIndex
                         \o <<NL>> \o bold(REASON) \o <<" ">> \o PROGRAM_ERROR[i].text)

\* parts[n][1].toUpperCase() + parts[n].substring(2)
capitalized(seg) ==
    IF seg = UNDEF \/ charAt(seg, 1) = UNDEF THEN Throws
    ELSE Returns(toUpperCase(charAt(seg, 1)) \o substringFrom(seg, 2))

\* Descriptive program errors
descriptiveProgramError(msg) ==
    LET parts == split(msg, ":") IN
    IF Len(parts) = 4
    THEN LET ixIndex == charAt(parts[3], Len(parts[3]) - 1)
             programError == capitalized(parts[4])
         IN  IF programError.threw THEN Throws
             ELSE Returns(<<NL>> \o bold(INSTRUCTION_INDEX) \o <<" ">> \o ixIndex
                          \o <<NL>> \o bold(REASON) \o <<" ">> \o programError.res
                          \o <<".">>)
    ELSE LET programError == capitalized(partAt(parts, 2))
         IN  IF programError.threw THEN Throws
             ELSE Returns(<<NL>> \o bold(REASON) \o <<" ">> \o programError.res
                          \o <<".">>)

\* convertErrorMessage(msg) trying the RPC substrings before the hex suffixes
convertErrorMessage_rpcFirst(msg) ==
    LET hex == FirstKey({i \in DOMAIN PROGRAM_ERROR :
                   endsWith(msg, <<"0", "x">> \o toLowerCase(PROGRAM_ERROR[i].key))})
        rpc == FirstKey({i \in DOMAIN RPC_ERROR : includes(msg, RPC_ERROR[i].key)})
        server == FirstKey({i \in DOMAIN SERVER_ERROR : msg = SERVER_ERROR[i].key})
        other == FirstKey({i \in DOMAIN OTHER_ERROR : msg = OTHER_ERROR[i].key})
    IN  IF rpc # 0 THEN Returns(RPC_ERROR[rpc].text)
        ELSE IF hex # 0 THEN hexProgramError(msg, hex)
        ELSE IF startsWith(msg, FAILED_TO_SEND) THEN descriptiveProgramError(msg)
        ELSE IF server # 0 THEN Returns(SERVER_ERROR[server].text)
        ELSE IF other # 0 THEN Returns(OTHER_ERROR[other].text)
        ELSE Returns(msg)

\* convertErrorMessage(msg)
convertErrorMessage(msg) ==
    LET hex == FirstKey({i \in DOMAIN PROGRAM_ERROR :
                   endsWith(msg, <<"0", "x">> \o toLowerCase(PROGRAM_ERROR[i].key))})
        rpc == FirstKey({i \in DOMAIN RPC_ERROR : includes(msg, RPC_ERROR[i].key)})
        server == FirstKey({i \in DOMAIN SERVER_ERROR : msg = SERVER_ERROR[i].key})
        other == FirstKey({i \in DOMAIN OTHER_ERROR : msg = OTHER_ERROR[i].key})
    IN  IF hex # 0 THEN hexProgramError(msg, hex)
        ELSE IF startsWith(msg, FAILED_TO_SEND) THEN descriptiveProgramError(msg)
        ELSE IF rpc # 0 THEN Returns(RPC_ERROR[rpc].text)
        ELSE IF server # 0 THEN Returns(SERVER_ERROR[server].text)
        ELSE IF other # 0 THEN Returns(OTHER_ERROR[other].text)
        ELSE Returns(msg)

FOR_MORE == <<"F", "o", "r", " ", "m", "o", "r", "e">>
HOME == <<"(", "/", "h", "o", "m", "e">>
COMPILING == <<"C", "o", "m", "p", "i", "l", "i", "n", "g", " ", "s", "o", "l", "p", "g", " ", "v", "0", ".", "1", ".", "0", NL>>
FINISHED_RELEASE == <<"F", "i", "n", "i", "s", "h", "e", "d", " ", "r", "e", "l", "e", "a", "s", "e">>
BUILD_SUCCESSFUL == <<"B", "u", "i", "l", "d", " ", "s", "u", "c", "c", "e", "s", "s", "f", "u", "l", ".", " ">>
COMPLETED == <<"C", "o", "m", "p", "l", "e", "t", "e", "d">>

\* the end of the first match of /\s\(\/home.+?(?=\s)/ that starts at i: a
\* whitespace, "(/home", the fewest characters of one line, one at least, that
\* bring it before a whitespace; -1 if there is none
pathEnd(s, i) ==
    LET from == i + 1 + Len(HOME)
        ends == {j \in (from + 1)..(Len(s) - 1) :
                    /\ s[j + 1] \in WhiteSpace
                    /\ \A k \in (from + 1)..j : s[k] # NL}
    IN  IF from < Len(s) /\ s[i + 1] \in WhiteSpace
           /\ SubSeq(s, i + 2, from) = HOME /\ ends # {}
        THEN CHOOSE j \in ends : \A k \in ends : j <= k
        ELSE -1

\* stderr.replace(/\s\(\/home.+?(?=\s)/g, "")
RECURSIVE removePaths(_)
removePaths(s) ==
    LET at == {i \in 0..(Len(s) - 1) : pathEnd(s, i) # -1} IN
    IF at = {} THEN s
    ELSE LET i == CHOOSE a \in at : \A b \in at : a <= b
         IN  SubSeq(s, 1, i) \o removePaths(SubSeq(s, pathEnd(s, i) + 1, Len(s)))

\* Remove rustc error line
removeForMore(stderr) ==
    LET startIndex == indexOf(stderr, FOR_MORE, 0) IN
    IF startIndex # -1
    THEN LET endIndex == indexOf(stderr, <<NL>>, startIndex)
         IN  substring(stderr, 0, startIndex) \o substringFrom(stderr, endIndex + 1)
    ELSE stderr

\* Remove whitespace before 'Finished'
editFinished(stderr) ==
    LET startIndex == indexOf(stderr, FINISHED_RELEASE, 0) IN
    IF startIndex # -1
    THEN LET whiteSpaceStartIndex == startIndex - 7
         IN  substring(stderr, 0, whiteSpaceStartIndex)
             \o replaceAll(substring(stderr, whiteSpaceStartIndex, startIndex),
                           <<" ">>, <<>>)
             \o success(BUILD_SUCCESSFUL)
             \o COMPLETED
             \o replaceFirst(substringFrom(stderr,
                                           indexOf(stderr, <<" ", "i", "n">>, startIndex)),
                             <<NL>>, <<".", NL>>)
    ELSE stderr

\* editStderr(stderr, uuid)
editStderr(stderr, uuid) ==
    LET a == removePaths(stderr)
        b == IF uuid = <<>> THEN a ELSE replaceAll(a, uuid, <<>>)
        c == removeForMore(b)
        d == replaceFirst(c, COMPILING, <<>>)
    IN  Returns(editFinished(d))

(***************************************************************************)
(* processDeploy: the cache of the upload command is checked, the          *)
(* collection and the candy machine are created or loaded, and the config  *)
(* lines are written by CONCURRENT workers.  The cache, the config data    *)
(* and the candy machine client live outside src/; a call that goes to the *)
(* chain settles later and may fail, the cache file is local.              *)
(***************************************************************************)
CONCURRENT == 8
COLLECTION == -1
ChunkSize == 2          \* config lines of one insert transaction
MaxChunks == 9          \* most chunks a cache holds

Item(name, link, onChain) == [name |-> name, metadata_link |-> link, onChain |-> onChain]

\* cache.isItemsEmpty()
isItemsEmpty(cache) == DOMAIN cache.items = {}

\* for (const index in cache.items): the integer keys ascending, then "-1"
KeyRank(cache, index) ==
    IF index = COLLECTION THEN Cardinality(DOMAIN cache.items) ELSE index

\* the cache and config checks, the count check left out
validate_noCount(cache, size) ==
    LET bad == {i \in DOMAIN cache.items :
                   ~cache.items[i].name \/ ~cache.items[i].metadata_link}
        first == CHOOSE i \in bad : \A j \in bad : KeyRank(cache, i) <= KeyRank(cache, j)
    IN  IF isItemsEmpty(cache) THEN "noItems"
        ELSE IF bad # {}
        THEN (IF ~cache.items[first].name THEN "name" ELSE "link")
        ELSE "ok"

\* the cache and config checks: the error thrown, or "ok"
validate(cache, size) ==
    LET bad == {i \in DOMAIN cache.items :
                   ~cache.items[i].name \/ ~cache.items[i].metadata_link}
        first == CHOOSE i \in bad : \A j \in bad : KeyRank(cache, i) <= KeyRank(cache, j)
        collectionInCache == IF COLLECTION \in DOMAIN cache.items THEN 1 ELSE 0
        cacheItemsSansCollection == Cardinality(DOMAIN cache.items) - collectionInCache
    IN  IF isItemsEmpty(cache) THEN "noItems"
        ELSE IF bad # {}
        THEN (IF ~cache.items[first].name THEN "name" ELSE "link")
        ELSE IF size # cacheItemsSansCollection THEN "count"
        ELSE "ok"

\* throw new Error(...)
throw(d, error) == [d EXCEPT !.pc = "thrown", !.error = error]

\* PgValidator.isPubkey(candyMachinePkStr)
isPubkey(str) == str \in {"key", "new"}

\* cache.program.setCandyMachine(candyPubkey) leaving the cache as it is
setCandyMachine_skip(d) == d

\* cache.program.setCandyMachine(candyPubkey)
setCandyMachine(d) ==
    [d EXCEPT !.cache.candyMachine = "new", !.cacheWritten = TRUE, !.synced = FALSE]

\* cache.syncFile() completed: the file holds the cache
syncFile(d) == [d EXCEPT !.fileCandy = d.cache.candyMachine, !.synced = TRUE]

\* Save the candy machine pubkey to the cache before attempting to deploy
saveCandyMachine(d) == [setCandyMachine(d) EXCEPT !.pc = "syncFile"]

\* the asset items not on chain yet, by index
Pending(cache) ==
    LET set == {i \in DOMAIN cache.items : i # COLLECTION /\ ~cache.items[i].onChain}
    IN  [k \in 1..Cardinality(set) |->
            CHOOSE x \in set : Cardinality({y \in set : y < x}) = k - 1]

\* cache.getConfigLineChunks(): the indices of each chunk
getConfigLineChunks(cache) ==
    LET p == Pending(cache)
        n == (Len(p) + ChunkSize - 1) \div ChunkSize
    IN  [k \in 1..n |-> SubSeq(p, (k - 1) * ChunkSize + 1, Min(k * ChunkSize, Len(p)))]

\* the candy machine is known: Writing config lines, unless hidden
writeConfigLines(d) ==
    IF d.hidden THEN [d EXCEPT !.pc = "done"]
    ELSE LET configLineChunks == getConfigLineChunks(d.cache) IN
         IF configLineChunks = <<>> THEN [d EXCEPT !.pc = "done"]
         ELSE [d EXCEPT !.pc = "findCandy", !.configLineChunks = configLineChunks]

\* j += CONCURRENT taking the chunk next to the one just written
nextChunk_adjacent(j) == j + 1

\* j += CONCURRENT
nextChunk(j) == j + CONCURRENT

\* worker i at j: break without a chunk j + i, else the insert is submitted
workerLoop(d, i, j) ==
    IF j + i >= Len(d.configLineChunks)
    THEN [d EXCEPT !.wj[i] = -1]
    ELSE [d EXCEPT !.wj[i] = j,
                   !.submitted[j + i + 1] = Append(@, i),
                   !.chain = @ \cup {"insert"}]

\* new Array(CONCURRENT).fill(null).map(async (_, i) => ...): each worker runs
\* to its first await
RECURSIVE startWorkers(_, _)
startWorkers(d, i) ==
    IF i = CONCURRENT THEN d ELSE startWorkers(workerLoop(d, i, 0), i + 1)

\* the items of a chunk are marked whether its insert succeeded or failed
markChunk_always(d, c, ok) ==
    [d EXCEPT !.cache.items =
                  [x \in DOMAIN @ |->
                      IF \E k \in DOMAIN d.configLineChunks[c + 1] :
                             d.configLineChunks[c + 1][k] = x
                      THEN [@[x] EXCEPT !.onChain = TRUE] ELSE @[x]],
              !.cacheWritten = TRUE, !.synced = FALSE,
              !.inserted = IF ok THEN @ \cup {c} ELSE @,
              !.failed = IF ok THEN @ ELSE @ \cup {c},
              !.errorCount = IF ok THEN @ ELSE @ + 1]

\* the insert of chunk c settled: try { insertItems; updateItemAtIndex for each
\* index } catch { errorCount++ }
markChunk(d, c, ok) ==
    IF ok
    THEN [d EXCEPT !.cache.items =
                       [x \in DOMAIN @ |->
                           IF \E k \in DOMAIN d.configLineChunks[c + 1] :
                                  d.configLineChunks[c + 1][k] = x
                           THEN [@[x] EXCEPT !.onChain = TRUE] ELSE @[x]],
                   !.cacheWritten = TRUE, !.synced = FALSE,
                   !.inserted = @ \cup {c}]
    ELSE [d EXCEPT !.errorCount = @ + 1, !.failed = @ \cup {c}]

\* the continuation of worker i after its insert settled; with every worker
\* done Promise.all resolves: clearInterval, await cache.syncFile(true)
insertSettled(d, i, ok) ==
    LET a == markChunk(d, d.wj[i] + i, ok)
        b == [a EXCEPT !.progressCount = @ + 1]
        c == workerLoop(b, i, nextChunk(d.wj[i]))
    IN  IF \A w \in DOMAIN c.wj : c.wj[w] = -1
        THEN [c EXCEPT !.interval = FALSE, !.pc = "finalSync"]
        ELSE c

(***************************************************************************)
(* PgShell.handleTermData: the keys (specification 4.2, handleKey).        *)
(***************************************************************************)
WordChars ==
    {"a", "b", "c", "d", "e", "f", "g", "h", "i", "j", "k", "l", "m", "n", "o", "p",
     "q", "r", "s", "t", "u", "v", "w", "x", "y", "z",
     "A", "B", "C", "D", "E", "F", "G", "H", "I", "J", "K", "L", "M", "N", "O", "P",
     "Q", "R", "S", "T", "U", "V", "W", "X", "Y", "Z",
     "0", "1", "2", "3", "4", "5", "6", "7", "8", "9", "_"}

\* BACKSLASH, DQUOTE and BACKTICK stand for the backslash, the double quote and
\* the backtick
Punctuation ==
    {".", "-", "/", "+", "BACKSLASH", "=", "'", "DQUOTE", ":", ";", "|", ",", "?", ">",
     "<", "BACKTICK", "~", "!", "@", "#", "$", "%", "^", "&", "*", "(", ")", "[", "]", "{",
     "}", " "}

\* PgTerminal.isCharValid on one character
isCharValid(c) == c \in WordChars \cup Punctuation

ManualEdit(t) == [t EXCEPT !.histCursor = Len(t.history), !.saved = <<>>]

keyChar(t, c) ==
    IF ~isCharValid(c) THEN t
    ELSE LET text == SubSeq(t.input, 1, t.cursor) \o <<c>>
                     \o SubSeq(t.input, t.cursor + 1, Len(t.input))
         IN  [ttySetInput(ManualEdit(t), text, FALSE) EXCEPT !.cursor = t.cursor + 1]

keyBackspace(t) ==
    IF t.cursor = 0 THEN t
    ELSE LET text == SubSeq(t.input, 1, t.cursor - 1)
                     \o SubSeq(t.input, t.cursor + 1, Len(t.input))
         IN  [ttySetInput(ManualEdit(t), text, FALSE) EXCEPT !.cursor = t.cursor - 1]

keyLeft(t) == [t EXCEPT !.cursor = Max(0, @ - 1)]

keyRight(t) == [t EXCEPT !.cursor = Min(Len(t.input), @ + 1)]

keyUp(t) ==
    IF t.history = <<>> THEN t
    ELSE LET r == historyGetPrevious(t)
         IN  [ttySetInput(r.t, r.v, FALSE) EXCEPT !.cursor = Len(r.v)]

keyDown(t) ==
    IF t.histCursor >= Len(t.history) THEN t
    ELSE LET r == historyGetNext(t)
         IN  [ttySetInput(r.t, r.v, FALSE) EXCEPT !.cursor = Len(r.v)]

(***************************************************************************)
(* PgTerm, the session orchestrator.                                       *)
(***************************************************************************)
\* message.replace(/\n\n/g, "\n \n")
RECURSIVE replaceDoubleNewline(_)
replaceDoubleNewline(s) ==
    IF Len(s) < 2 THEN s
    ELSE IF s[1] = NL /\ s[2] = NL
         THEN <<NL, " ", NL>> \o replaceDoubleNewline(SubSeq(s, 3, Len(s)))
         ELSE <<s[1]>> \o replaceDoubleNewline(Tail(s))

\* print(message) restoring the prompt before it writes the message
print_afterRestart(t, message) ==
    LET m == replaceDoubleNewline(message) IN
    IF ~t.open THEN t
    ELSE IF isPrompting(t) THEN ttyPrint(printAndRestartPrompt(t, <<>>), m \o <<NL>>)
    ELSE ttyPrint(t, m)

\* print(message)
print(t, message) ==
    LET m == replaceDoubleNewline(message) IN
    IF ~t.open THEN t
    ELSE IF isPrompting(t) THEN printAndRestartPrompt(t, m \o <<NL>>)
    ELSE ttyPrint(t, m)

\* println(message)
println(t, message) == print(t, message \o <<NL>>)

\* runCommand(line) without the isPrompting() test
runCommand_unguarded(t, line) == handleReadComplete(ttySetInput(t, line, FALSE))

\* runCommand(line)
runCommand(t, line) ==
    IF isPrompting(t) THEN handleReadComplete(ttySetInput(t, line, FALSE)) ELSE t

\* onPaste(data)
onPaste(t, data) == ttyPrint(t, data)

\* clear()
clear(t) == LET a == ttyClearTty(t) IN ttyPrint(a, PROMPT \o ttyGetInput(a))

\* disable()
disable(t) == ttyClearCurrentLine([t EXCEPT !.active = FALSE])

\* enable(): schedules the callback
enable(t) == [t EXCEPT !.enableTimers = @ + 1]

\* the callback of enable(), 10 ms later
enableCallback(t) ==
    ttyRead(shellPrompt([t EXCEPT !.active = TRUE, !.enableTimers = @ - 1]), <<>>)

\* handleTermResize({rows, cols}) leaving the cursor behind the line it drew
handleTermResize_cursorAtEnd(t, c, r) ==
    LET a == ttyClearInput(t)
        b == ttySetTermSize(a, c, r)
        d == ttySetInput(b, ttyGetInput(b), TRUE)
    IN  [d EXCEPT !.cursor = Len(d.input)]

\* handleTermResize({rows, cols})
handleTermResize(t, c, r) ==
    LET a == ttyClearInput(t)
        b == ttySetTermSize(a, c, r)
    IN  ttySetInput(b, ttyGetInput(b), TRUE)

\* runLastCmd()
runLastCmd(t) ==
    LET r == historyGetPrevious(t)
    IN  handleReadComplete(ttySetInput(r.t, r.v, FALSE))

\* the callback of fit(), 1000 ms later
fitCallback(t) ==
    IF isPrompting(t) /\ ~ttyGetInputStartsWithPrompt(t)
    THEN LET in == ttyGetInput(t) IN
         IF in # <<>>
         THEN ttyPrint(shellPrompt(ttyClearInput(t)), in)
         ELSE shellPrompt(t)
    ELSE t

\* open(container)
open(t) == enable(println([t EXCEPT !.open = TRUE], DEFAULT_TEXT))

(***************************************************************************)
(* Inputs.                                                                 *)
(***************************************************************************)
Messages == {<<"m">>, <<NL, NL>>}
RunLines == {SOLANA, <<>>}
PasteData == {<<"ESC">>, <<"a">>}
Sizes == {<<4, 3>>, <<8, 2>>}

\* error messages: a head and up to MaxSegments further colon-delimited segments
MaxSegments == 3
MsgHeads == {FAILED_TO_SEND, <<"x">>, <<"r", "p", "c">>, <<"s", "r", "v">>,
             <<"o", "t", "h">>}
MsgSegments == {<<>>, <<" ">>, <<" ", "e">>, <<" ", "1">>, <<" ", "0", "x", "1">>,
                <<"0", "x", "a">>, <<"r", "p", "c">>}
RECURSIVE JoinColon(_, _)
JoinColon(head, segs) ==
    IF segs = <<>> THEN head
    ELSE JoinColon(head \o <<":">> \o Head(segs), Tail(segs))
ErrorMessages ==
    {JoinColon(h, segs) : h \in MsgHeads,
        segs \in UNION {[1..n -> MsgSegments] : n \in 0..MaxSegments}}

\* compiler diagnostics: up to MaxLines pieces, the last one ended or not
MaxLines == 2
UUID == <<"u", "1">>
StderrPieces == {<<"e", NL>>,
                 <<"F", "o", "r", " ", "m", "o", "r", "e", " ", "x", NL>>,
                 <<"F", "o", "r", " ", "m", "o", "r", "e", " ", "x">>,
                 <<"p", " ", "(", "/", "h", "o", "m", "e", "/", "h", " ", "q", NL>>,
                 <<"u", "1", NL>>,
                 COMPILING,
                 <<" ", " ", " ", " ", " ", " ", " ", "F", "i", "n", "i", "s", "h", "e", "d", " ", "r", "e", "l", "e", "a", "s", "e", " ", "i", "n", " ", "1", "s", NL>>}
RECURSIVE Concat(_)
Concat(ps) == IF ps = <<>> THEN <<>> ELSE Head(ps) \o Concat(Tail(ps))
Stderrs == {Concat(ps) : ps \in UNION {[1..n -> StderrPieces] : n \in 1..MaxLines}}

\* the text leaves the current line, or the line has room for it
Room(text) == (text # <<>> /\ Last(text) = NL) \/ Len(cur) <= MaxCur

(***************************************************************************)
(* The state machine.                                                      *)
(***************************************************************************)
Init ==
    /\ isOpen = FALSE
    /\ active = FALSE
    /\ input = <<>>
    /\ cursor = 0
    /\ history = <<>>
    /\ histCursor = 0
    /\ saved = <<>>
    /\ scroll = <<>>
    /\ cur = <<>>
    /\ cols = 8
    /\ rows = 2
    /\ fitTimeoutId = 0
    /\ timers = {}
    /\ enableTimers = 0
    /\ reenableTimers = 0
    /\ wasmLoaded = FALSE
    /\ connected \in BOOLEAN
    /\ disabled = FALSE
    /\ destroyed = FALSE
    /\ diag = NoDiag
    /\ deploy = NoDeploy
    /\ out = NoDispatch

\* one handler run to completion, leaving the session t
Step(t) ==
    /\ t.enableTimers <= MaxEnableTimers
    /\ reenableTimers + t.d.scheduled <= MaxReenableTimers
    /\ Set(t)
    /\ reenableTimers' = reenableTimers + t.d.scheduled
    /\ out' = IF t.d.dispatched THEN t.d ELSE out

Env == <<wasmLoaded, connected>>
Fits == <<fitTimeoutId, timers>>

Open ==
    /\ ~isOpen
    /\ Step(open(S))
    /\ disabled' = FALSE
    /\ UNCHANGED <<Env, Fits, destroyed, diag, deploy>>

TermPrint(message) ==
    /\ isPrompting(S) \/ Room(message)
    /\ Step(print(S, message))
    /\ UNCHANGED <<Env, Fits, disabled, destroyed, diag, deploy>>

TermPrintln(message) ==
    /\ Step(println(S, message))
    /\ UNCHANGED <<Env, Fits, disabled, destroyed, diag, deploy>>

RunCommand(line) ==
    /\ Step(runCommand(S, line))
    /\ UNCHANGED <<Env, Fits, disabled, destroyed, diag, deploy>>

RunLastCmd ==
    /\ Step(runLastCmd(S))
    /\ UNCHANGED <<Env, Fits, disabled, destroyed, diag, deploy>>

Paste(data) ==
    /\ Len(cur) <= Len(PROMPT \o input) + MaxCur
    /\ Step(onPaste(S, data))
    /\ UNCHANGED <<Env, Fits, disabled, destroyed, diag, deploy>>

Clear ==
    /\ Step(clear(S))
    /\ UNCHANGED <<Env, Fits, disabled, destroyed, diag, deploy>>

Disable ==
    /\ Step(disable(S))
    /\ disabled' = TRUE
    /\ UNCHANGED <<Env, Fits, destroyed, diag, deploy>>

Enable ==
    /\ Step(enable(S))
    /\ disabled' = FALSE
    /\ UNCHANGED <<Env, Fits, destroyed, diag, deploy>>

EnableTimeout ==
    /\ enableTimers > 0
    /\ Step(enableCallback(S))
    /\ UNCHANGED <<Env, Fits, disabled, destroyed, diag, deploy>>

\* the callback of parseCommand's setTimeout: PgTerminal.enable()
ReenableTimeout ==
    /\ reenableTimers > 0
    /\ Set(S)
    /\ reenableTimers' = reenableTimers - 1
    /\ out' = [out EXCEPT !.published = Append(@, PgTerminal_enable)]
    /\ UNCHANGED <<Env, Fits, disabled, destroyed, diag, deploy>>

Resize(size) ==
    /\ isOpen /\ ~destroyed
    /\ size # <<cols, rows>>
    /\ Step(handleTermResize(S, size[1], size[2]))
    /\ UNCHANGED <<Env, Fits, disabled, destroyed, diag, deploy>>

\* setTimeout returns an id no pending callback and no field holds
FreshTimerId ==
    CHOOSE i \in 1..(MaxTimers + 2) :
        /\ i \notin timers \cup {fitTimeoutId}
        /\ \A j \in 1..(i - 1) : j \in timers \cup {fitTimeoutId}

\* fit() leaving the callback of the previous fit() pending
clearFitTimeout_none == timers

\* if (this.fitTimeoutId) clearTimeout(this.fitTimeoutId)
clearFitTimeout == timers \ {fitTimeoutId}

\* fit(): fitAddon.fit() resizes the surface to size
Fit(size) ==
    /\ Cardinality(clearFitTimeout) < MaxTimers
    /\ Step(IF isOpen /\ size # <<cols, rows>>
            THEN handleTermResize(S, size[1], size[2]) ELSE S)
    /\ timers' = clearFitTimeout \cup {FreshTimerId}
    /\ fitTimeoutId' = FreshTimerId
    /\ UNCHANGED <<Env, disabled, destroyed, diag, deploy>>

FitTimeout ==
    \E id \in timers :
        /\ Step(fitCallback(S))
        /\ timers' = timers \ {id}
        /\ UNCHANGED <<Env, fitTimeoutId, disabled, destroyed, diag, deploy>>

\* fitAddon.fit() on the surface: "prompt message not showing after resizing",
\* the line of the cursor keeps what was behind the prompt and loses the prompt
Reflow ==
    /\ isOpen /\ ~destroyed
    /\ ttyGetInputStartsWithPrompt(S)
    /\ Step([S EXCEPT !.cur = SubSeq(cur, Len(PROMPT) + 1, Len(cur))])
    /\ UNCHANGED <<Env, Fits, disabled, destroyed, diag, deploy>>

\* destroy(): xterm.dispose(), delete this.xterm
Destroy ==
    /\ ~destroyed
    /\ Step(S)
    /\ destroyed' = TRUE
    /\ UNCHANGED <<Env, Fits, disabled, diag, deploy>>

\* PgTerminal.convertErrorMessage(msg), msg the message that is waiting
ConvertErrorMessage ==
    /\ diag.op = "none"
    /\ diag.arg \in ErrorMessages
    /\ Step(S)
    /\ diag' = [op |-> "convertErrorMessage", arg |-> diag.arg,
                threw |-> convertErrorMessage(diag.arg).threw,
                res |-> convertErrorMessage(diag.arg).res]
    /\ UNCHANGED <<Env, Fits, disabled, destroyed, deploy>>

\* PgTerminal.editStderr(stderr, uuid), stderr the text that is waiting
EditStderr ==
    /\ diag.op = "none"
    /\ diag.arg \in Stderrs
    /\ Step(S)
    /\ diag' = [op |-> "editStderr", arg |-> diag.arg,
                threw |-> editStderr(diag.arg, UUID).threw,
                res |-> editStderr(diag.arg, UUID).res]
    /\ UNCHANGED <<Env, Fits, disabled, destroyed, deploy>>

(***************************************************************************)
(* processDeploy, step by step: each action runs from one await to the     *)
(* next.                                                                   *)
(***************************************************************************)
Session == <<isOpen, active, input, cursor, history, histCursor, saved, scroll, cur,
             cols, rows, fitTimeoutId, timers, enableTimers, reenableTimers,
             wasmLoaded, connected, disabled, destroyed, diag, out>>

\* loadCache(), the checks of the cache, loadConfigData(), the checks of the
\* config, up to getMetaplex(rpcUrl)
Validate ==
    /\ deploy.pc = "start"
    /\ deploy' = IF validate(deploy.cache, deploy.size) # "ok"
                 THEN throw(deploy, validate(deploy.cache, deploy.size))
                 ELSE [deploy EXCEPT !.pc = "metaplex"]
    /\ UNCHANGED Session

\* after getMetaplex: no candy machine in the cache, so the collection is
\* checked and created unless deployed; or the candy machine is looked up
GetMetaplex ==
    /\ deploy.pc = "metaplex"
    /\ deploy' =
          IF deploy.cache.candyMachine = ""
          THEN IF COLLECTION \notin DOMAIN deploy.cache.items
               THEN throw(deploy, "collection")
               ELSE IF deploy.cache.items[COLLECTION].onChain
               THEN saveCandyMachine(deploy)
               ELSE [deploy EXCEPT !.pc = "createCollection",
                                   !.chain = @ \cup {"collection"}]
          ELSE IF ~isPubkey(deploy.cache.candyMachine)
               THEN throw(deploy, "invalidCandy")
               ELSE [deploy EXCEPT !.pc = "findByAddress"]
    /\ UNCHANGED Session

\* createCollection(metaplex, cache, configData) settled
CreateCollectionSettles(ok) ==
    /\ deploy.pc = "createCollection"
    /\ deploy' =
          IF ok
          THEN saveCandyMachine([deploy EXCEPT !.cache.items[COLLECTION].onChain = TRUE,
                                               !.cacheWritten = TRUE, !.synced = FALSE])
          ELSE throw(deploy, "chain")
    /\ UNCHANGED Session

\* await cache.syncFile() done: candyClient.create(...) is called
SyncFileSettles ==
    /\ deploy.pc = "syncFile"
    /\ deploy' = [syncFile(deploy) EXCEPT !.pc = "create", !.chain = @ \cup {"create"}]
    /\ UNCHANGED Session

\* candyClient.create(...) settled
CreateSettles(ok) ==
    /\ deploy.pc = "create"
    /\ deploy' = IF ok THEN writeConfigLines(deploy) ELSE throw(deploy, "chain")
    /\ UNCHANGED Session

\* candyClient.findByAddress of the candy machine of the cache settled
FindByAddressSettles(ok) ==
    /\ deploy.pc = "findByAddress"
    /\ deploy' = IF ok THEN writeConfigLines(deploy) ELSE throw(deploy, "chain")
    /\ UNCHANGED Session

\* candyClient.findByAddress before the config lines settled: the periodic
\* save is set and the workers start
FindCandySettles(ok) ==
    /\ deploy.pc = "findCandy"
    /\ deploy' =
          IF ok
          THEN startWorkers([deploy EXCEPT !.pc = "workers", !.interval = TRUE,
                                           !.submitted = [c \in DOMAIN deploy.configLineChunks |-> <<>>]],
                            0)
          ELSE throw(deploy, "chain")
    /\ UNCHANGED Session

\* candyClient.insertItems of worker i settled
InsertSettles(i, ok) ==
    /\ deploy.pc = "workers"
    /\ deploy.wj[i] >= 0
    /\ deploy' = insertSettled(deploy, i, ok)
    /\ UNCHANGED Session

\* setInterval(() => cache.syncFile(), 5000): the periodic save
SaveCacheInterval ==
    /\ deploy.pc # "idle"
    /\ deploy.interval
    /\ deploy' = syncFile(deploy)
    /\ UNCHANGED Session

\* await cache.syncFile(true) done: if (errorCount) throw
FinalSyncSettles ==
    /\ deploy.pc = "finalSync"
    /\ deploy' = IF deploy.errorCount # 0
                 THEN throw(syncFile(deploy), "insertErrors")
                 ELSE [syncFile(deploy) EXCEPT !.pc = "done"]
    /\ UNCHANGED Session

\* setWasm(wasm)
SetWasm ==
    /\ ~wasmLoaded
    /\ Step(S)
    /\ wasmLoaded' = TRUE
    /\ UNCHANGED <<connected, Fits, disabled, destroyed, diag, deploy>>

\* xterm.onData delivers the keys until the surface is disposed
Typing == isOpen /\ active /\ ~destroyed

KeyChar(c) ==
    /\ Typing
    /\ Len(input) < MaxInput
    /\ Step(keyChar(S, c))
    /\ UNCHANGED <<Env, Fits, disabled, destroyed, diag, deploy>>

KeyBackspace ==
    /\ Typing
    /\ Len(input) <= MaxInput
    /\ Step(keyBackspace(S))
    /\ UNCHANGED <<Env, Fits, disabled, destroyed, diag, deploy>>

KeyLeft ==
    /\ Typing
    /\ Step(keyLeft(S))
    /\ UNCHANGED <<Env, Fits, disabled, destroyed, diag, deploy>>

KeyRight ==
    /\ Typing
    /\ Step(keyRight(S))
    /\ UNCHANGED <<Env, Fits, disabled, destroyed, diag, deploy>>

KeyUp ==
    /\ Typing
    /\ Step(keyUp(S))
    /\ UNCHANGED <<Env, Fits, disabled, destroyed, diag, deploy>>

KeyDown ==
    /\ Typing
    /\ Step(keyDown(S))
    /\ UNCHANGED <<Env, Fits, disabled, destroyed, diag, deploy>>

KeyEnter ==
    /\ Typing
    /\ Step(handleReadComplete(S))
    /\ UNCHANGED <<Env, Fits, disabled, destroyed, diag, deploy>>

(***************************************************************************)
(* The session: the surface, the editing keys, the prompt and what callers *)
(* write and inject.                                                       *)
(***************************************************************************)
Next ==
    \/ Open
    \/ \E m \in Messages : TermPrint(m)
    \/ \E m \in Messages : TermPrintln(m)
    \/ \E l \in RunLines : RunCommand(l)
    \/ Clear
    \/ Disable
    \/ Enable
    \/ EnableTimeout
    \/ \E z \in Sizes : Resize(z)
    \/ KeyChar("a")
    \/ KeyChar("ESC")
    \/ KeyBackspace
    \/ KeyLeft
    \/ KeyRight
    \/ KeyUp
    \/ KeyDown

Spec == Init /\ [][Next]_vars

(***************************************************************************)
(* The surface fitted to its container: fit() and its reflow callback,     *)
(* which the timer queue runs once its delay has passed.                   *)
(***************************************************************************)
NextFit ==
    \/ Open
    \/ EnableTimeout
    \/ Disable
    \/ Enable
    \/ KeyChar("a")
    \/ KeyLeft
    \/ \E z \in Sizes : Fit(z)
    \/ FitTimeout

FitSpec == Init /\ [][NextFit]_vars /\ WF_vars(FitTimeout)

(***************************************************************************)
(* The deferred backend command: the wallet is connected, the backend is   *)
(* loaded while the session runs, and the loader replays the last command. *)
(***************************************************************************)
InitReplay == Init /\ connected

NextReplay ==
    \/ Open
    \/ Enable
    \/ EnableTimeout
    \/ KeyChar("a")
    \/ KeyUp
    \/ KeyDown
    \/ KeyEnter
    \/ \E l \in RunLines : RunCommand(l)
    \/ SetWasm
    \/ RunLastCmd
    \/ ReenableTimeout

ReplaySpec == InitReplay /\ [][NextReplay]_vars

(***************************************************************************)
(* The dispatcher: a typed line is submitted at the prompt, with the       *)
(* backend loaded or not and the wallet connected or not.                  *)
(***************************************************************************)
BALANCE == <<" ", "b", "a", "l", "a", "n", "c", "e">>

ParseLines ==
    {<<>>, <<" ">>, <<"x">>,
     HELP, HELP \o <<"m", "e">>, <<" ">> \o HELP,
     BUILD, <<" ">> \o BUILD \o <<" ">>, BUILD \o <<" ", "x">>,
     CONNECT, CONNECT \o <<" ">>,
     DEPLOY, <<" ">> \o DEPLOY \o <<" ">>, DEPLOY \o <<" ", "x">>,
     SOLANA, SOLANA \o BALANCE, <<" ">> \o SOLANA \o BALANCE \o <<" ">>,
     SOLANA \o <<"-", "k", "e", "y", "g", "e", "n">>}

InitParse ==
    /\ isOpen = TRUE
    /\ active = TRUE
    /\ input \in ParseLines
    /\ cursor = Len(input)
    /\ history = <<>>
    /\ histCursor = 0
    /\ saved = <<>>
    /\ scroll = <<>>
    /\ cur = PROMPT \o input
    /\ cols = 8
    /\ rows = 2
    /\ fitTimeoutId = 0
    /\ timers = {}
    /\ enableTimers = 0
    /\ reenableTimers = 0
    /\ wasmLoaded \in BOOLEAN
    /\ connected \in BOOLEAN
    /\ disabled = FALSE
    /\ destroyed = FALSE
    /\ diag = NoDiag
    /\ deploy = NoDeploy
    /\ out = NoDispatch

NextParse ==
    \/ KeyEnter
    \/ ReenableTimeout

ParseSpec == InitParse /\ [][NextParse]_vars

(***************************************************************************)
(* Lines injected by a caller: runCommand(line) takes any string, also one *)
(* the keys could not have typed.                                          *)
(***************************************************************************)
InjectLines ==
    {<<>>, <<"x">>, HELP, HELP \o <<"m", "e">>, BUILD \o <<" ", "n", "o", "w">>,
     SOLANA, SOLANA \o BALANCE, SOLANA \o <<"-", "k", "e", "y", "g", "e", "n">>,
     SOLANA \o <<"\t", "b">>, <<"\t">> \o DEPLOY \o <<NL>>}

NextInject ==
    \/ Open
    \/ Enable
    \/ EnableTimeout
    \/ \E l \in InjectLines : RunCommand(l)

InjectSpec == Init /\ [][NextInject]_vars

(***************************************************************************)
(* The session before and after open(): the methods a caller may use on a  *)
(* PgTerm that has no surface yet.                                         *)
(***************************************************************************)
NextClosed ==
    \/ Open
    \/ Enable
    \/ EnableTimeout
    \/ \E m \in Messages : TermPrint(m)
    \/ \E m \in Messages : TermPrintln(m)
    \/ \E l \in RunLines : RunCommand(l)
    \/ RunLastCmd
    \/ \E d \in PasteData : Paste(d)
    \/ Clear

ClosedSpec == Init /\ [][NextClosed]_vars

(***************************************************************************)
(* The session torn down: destroy() and the events that were bound or      *)
(* pending when it ran.                                                    *)
(***************************************************************************)
NextDestroy ==
    \/ Open
    \/ Enable
    \/ EnableTimeout
    \/ KeyChar("a")
    \/ KeyLeft
    \/ \E z \in Sizes : Resize(z)
    \/ \E z \in Sizes : Fit(z)
    \/ FitTimeout
    \/ Destroy

DestroySpec == Init /\ [][NextDestroy]_vars

(***************************************************************************)
(* The keys and the paste: what reaches the line the user edits.           *)
(***************************************************************************)
NextPaste ==
    \/ Open
    \/ Enable
    \/ EnableTimeout
    \/ KeyChar("a")
    \/ KeyChar("ESC")
    \/ KeyLeft
    \/ KeyBackspace
    \/ \E d \in PasteData : Paste(d)

PasteSpec == Init /\ [][NextPaste]_vars

(***************************************************************************)
(* The diagnostics: the two pure conversions applied to bounded inputs.    *)
(***************************************************************************)
\* the session as constructed and one input of a conversion waiting
InitDiag ==
    /\ isOpen = FALSE
    /\ active = FALSE
    /\ input = <<>>
    /\ cursor = 0
    /\ history = <<>>
    /\ histCursor = 0
    /\ saved = <<>>
    /\ scroll = <<>>
    /\ cur = <<>>
    /\ cols = 8
    /\ rows = 2
    /\ fitTimeoutId = 0
    /\ timers = {}
    /\ enableTimers = 0
    /\ reenableTimers = 0
    /\ wasmLoaded = FALSE
    /\ connected \in BOOLEAN
    /\ disabled = FALSE
    /\ destroyed = FALSE
    /\ diag \in {[NoDiag EXCEPT !.arg = a] : a \in ErrorMessages \cup Stderrs}
    /\ deploy = NoDeploy
    /\ out = NoDispatch

NextDiag ==
    \/ ConvertErrorMessage
    \/ EditStderr

DiagSpec == InitDiag /\ [][NextDiag]_vars

(***************************************************************************)
(* The reflow callback on a line that lost its prompt.                     *)
(***************************************************************************)
NextReflow ==
    \/ Open
    \/ EnableTimeout
    \/ Disable
    \/ Enable
    \/ KeyChar("a")
    \/ KeyLeft
    \/ Reflow
    \/ \E z \in Sizes : Fit(z)
    \/ FitTimeout

ReflowSpec == Init /\ [][NextReflow]_vars

(***************************************************************************)
(* processDeploy on the caches and configs of the upload command.          *)
(***************************************************************************)
ItemCounts == {0, ChunkSize, MaxChunks * ChunkSize - 1}
Collections == {"absent", "present", "onChain"}
Defects == {"none", "name", "link"}
CandyMachines == {"", "key", "bad"}

\* a cache of n asset items and the collection item, the last item with the
\* defect, the asset items deployed or not
CacheOf(n, collection, defect, deployed, candyMachine) ==
    LET keys == (0..(n - 1)) \cup (IF collection = "absent" THEN {} ELSE {COLLECTION})
        last == IF n > 0 THEN n - 1 ELSE COLLECTION
    IN  [items |-> [i \in keys |->
                       Item(~(defect = "name" /\ i = last),
                            ~(defect = "link" /\ i = last),
                            IF i = COLLECTION THEN collection = "onChain" ELSE deployed)],
         candyMachine |-> candyMachine]

\* processDeploy is called: nothing done yet, the cache as its file holds it
DeployOf(cache, size, hidden) ==
    [pc |-> "start", error |-> "", cache |-> cache,
     fileCandy |-> cache.candyMachine, synced |-> TRUE,
     size |-> size, hidden |-> hidden, chain |-> {},
     configLineChunks |-> <<>>, wj |-> [i \in 0..(CONCURRENT - 1) |-> -1],
     submitted |-> <<>>, inserted |-> {}, failed |-> {},
     errorCount |-> 0, progressCount |-> 0, interval |-> FALSE,
     cacheWritten |-> FALSE]

SessionIdle ==
    /\ isOpen = FALSE
    /\ active = FALSE
    /\ input = <<>>
    /\ cursor = 0
    /\ history = <<>>
    /\ histCursor = 0
    /\ saved = <<>>
    /\ scroll = <<>>
    /\ cur = <<>>
    /\ cols = 8
    /\ rows = 2
    /\ fitTimeoutId = 0
    /\ timers = {}
    /\ enableTimers = 0
    /\ reenableTimers = 0
    /\ wasmLoaded = FALSE
    /\ connected = TRUE
    /\ disabled = FALSE
    /\ destroyed = FALSE
    /\ diag = NoDiag
    /\ out = NoDispatch

InitDeploy ==
    /\ SessionIdle
    /\ deploy \in {DeployOf(CacheOf(n, c, x, o, m), n + more, h) :
                      n \in ItemCounts, c \in Collections, x \in Defects,
                      o \in BOOLEAN, m \in CandyMachines, more \in {0, 1},
                      h \in BOOLEAN}

Settle ==
    \/ Validate
    \/ GetMetaplex
    \/ \E ok \in BOOLEAN : CreateCollectionSettles(ok)
    \/ SyncFileSettles
    \/ \E ok \in BOOLEAN : CreateSettles(ok)
    \/ \E ok \in BOOLEAN : FindByAddressSettles(ok)
    \/ \E ok \in BOOLEAN : FindCandySettles(ok)
    \/ \E i \in 0..(CONCURRENT - 1), ok \in BOOLEAN : InsertSettles(i, ok)
    \/ FinalSyncSettles

NextDeploy ==
    \/ Settle
    \/ SaveCacheInterval

DeploySpec == InitDeploy /\ [][NextDeploy]_vars

\* the config lines of a full cache are written; every call made settles
InitInsert ==
    /\ SessionIdle
    /\ deploy \in {DeployOf(CacheOf(MaxChunks * ChunkSize - 1, "present", "none", FALSE, m),
                            MaxChunks * ChunkSize - 1, FALSE) :
                      m \in {"", "key"}}

InsertSpec == InitInsert /\ [][NextDeploy]_vars /\ WF_vars(Settle)

(***************************************************************************)
(* Properties of the session.                                              *)
(***************************************************************************)
\* the positions of the newlines of a text, and the lines they end
NewlinesOf(text) == {i \in 1..Len(text) : text[i] = NL}
LinesOf(text) ==
    [k \in 1..Cardinality(NewlinesOf(text)) |->
        LET e == CHOOSE i \in NewlinesOf(text) :
                     Cardinality({j \in NewlinesOf(text) : j <= i}) = k
            b == CHOOSE i \in 0..Len(text) :
                     /\ i = 0 \/ i \in NewlinesOf(text)
                     /\ Cardinality({j \in NewlinesOf(text) : j <= i}) = k - 1
        IN  SubSeq(text, b + 1, e - 1)]

\* the display after text was written on a cleared line and the prompt and the
\* InputLine were drawn again behind it
PrintedThenRestored(text) ==
    /\ input' = input
    /\ cursor' = cursor
    /\ active'
    /\ scroll' = LinesOf(text)
    /\ cur' = PROMPT \o input

\* C1: print(msg) and println(msg) while Prompting first remove the rendered
\* prompt and InputLine, then write the message, then draw the prompt and the
\* same InputLine again: the message lines stand above, the line of the cursor
\* is the prompt and the unchanged text, and the cursor offset is unchanged.
C1_PrintThenRestore ==
    [][\A m \in Messages :
        /\ (isOpen /\ active /\ TermPrint(m))
              => PrintedThenRestored(replaceDoubleNewline(m) \o <<NL>>)
        /\ (isOpen /\ active /\ TermPrintln(m))
              => PrintedThenRestored(replaceDoubleNewline(m \o <<NL>>) \o <<NL>>)]_vars

\* a message was printed over a typed line of three characters with the cursor
\* inside it
C1_Witness ==
    /\ isOpen /\ active
    /\ Len(input) = 3 /\ cursor = 2
    /\ scroll = <<<<"m">>>>
    /\ cur = PROMPT \o input

\* C2: after disable() the session is not Prompting until enable() is called
\* again, whatever timers were pending when disable() ran.
C2_DisabledUntilEnable == disabled => ~isPrompting(S)

\* C3: a resize handled while Prompting leaves the InputLine text and its cursor
\* offset as they were; the cached dimensions become the new ones, the line is
\* drawn again, and nothing else of the session changes.
C3_ResizeKeepsInputLine ==
    [][\A z \in Sizes :
        (isOpen /\ active /\ Resize(z)) =>
            /\ input' = input
            /\ cursor' = cursor
            /\ cols' = z[1] /\ rows' = z[2]
            /\ cur' = PROMPT \o input
            /\ UNCHANGED <<isOpen, active, history, histCursor, saved,
                           enableTimers, out>>]_vars

\* a recalled line with the cursor inside it, on a surface that was resized
C3_Witness ==
    /\ isOpen /\ active
    /\ <<cols, rows>> = <<4, 3>>
    /\ Len(input) > 3 /\ cursor = 3
    /\ RenderedRows(S) = 2

\* the session after line was submitted from the history h
Submitted(h, line) ==
    /\ ~active'
    /\ input' = <<>> /\ cursor' = 0
    /\ history' = IF line = <<>> THEN h ELSE KeepLast(h \o <<line>>, HistorySize)
    /\ histCursor' = Len(history')
    /\ out'.dispatched /\ out'.line = line

\* C5: runCommand(line) while Prompting sets the InputLine to line and submits
\* it: the line is appended to the History when it is not empty, the InputLine
\* is cleared and the line is handed to the dispatcher; while not Prompting it
\* changes neither the InputLine, the History, the display nor the state.
C5_RunCommandOnlyPrompting ==
    [][\A l \in RunLines :
        RunCommand(l) =>
            IF active
            THEN Submitted(history, l)
            ELSE /\ UNCHANGED <<isOpen, active, input, cursor, history, histCursor,
                                saved, cur, cols, rows, enableTimers, out>>
                 /\ scroll' = <<>>]_vars

\* runCommand submitted the backend line a second time
C5_Witness ==
    /\ isOpen /\ ~active
    /\ out.dispatched /\ out.line = SOLANA
    /\ history = <<SOLANA, SOLANA>>
    /\ input = <<>> /\ cursor = 0
    /\ cur = PROMPT \o SOLANA

\* C4: at most one reflow callback is pending at any time, the one the last
\* fit() scheduled, and a pending reflow callback eventually runs: after the
\* last fit() of a sequence exactly one callback runs.
C4_FitDebounced ==
    /\ [](Cardinality(timers) <= 1 /\ timers \subseteq {fitTimeoutId})
    /\ [](timers # {} => <>(timers = {}))

\* fit() was called twice, the surface was resized, and no callback is pending
C4_Witness ==
    /\ isOpen
    /\ fitTimeoutId = 2
    /\ timers = {}
    /\ <<cols, rows>> = <<4, 3>>

\* the last line submitted is a backend command that found no backend loaded
BackendDeferred ==
    /\ out.dispatched
    /\ cmdName(trim(out.line)) = SOLANA
    /\ out.published = <<PgTerminal_loadWasm("SOLANA_CLI")>>

\* C6: when a backend command was submitted while the backend was not loaded
\* and runLastCmd() runs once the backend is available, the line resubmitted is
\* the line submitted last, the backend command, whatever keys were handled in
\* between, and the backend is invoked with it exactly once.
C6_ReplaysDeferredLine ==
    [][(BackendDeferred /\ wasmLoaded /\ RunLastCmd) =>
          /\ out'.line = out.line
          /\ out'.invoked = <<parseSolana(trim(out.line), getSolanaCliArgs)>>]_vars

(***************************************************************************)
(* Properties of the dispatcher.                                           *)
(***************************************************************************)
\* the line handed to the dispatcher names the backend in its first token
BackendLine == out.dispatched /\ cmdName(trim(out.line)) = SOLANA

\* a terminal-enable was published, and a state-change signal
EnablePublished == \E i \in DOMAIN out.published : out.published[i] = PgTerminal_enable
StatesPublished ==
    {i \in DOMAIN out.published : out.published[i].evt = EVT_NAME_TERMINAL_STATE}

\* the one backend call with the trimmed line and the contextual arguments
InvokedOnce ==
    out.invoked = <<[cmd |-> trim(out.line),
                     args |-> <<"endpoint", "commitment", "keypairBytes">>]>>

\* exactly one re-enable was scheduled: it is pending, or it has run
ReenableScheduledOnce ==
    /\ out.scheduled = 1
    /\ \/ reenableTimers = 1 /\ out.published = <<>>
       \/ reenableTimers = 0 /\ out.published = <<PgTerminal_enable>>

C9_DeployIffConnected ==
    (out.dispatched /\ trim(out.line) = DEPLOY) =>
        /\ out.matched
        /\ connected => out.published = <<Signal(EVT_NAME_TERMINAL_STATE, <<"deployStart">>)>>
        /\ ~connected => StatesPublished = {}

\* a padded deploy was recognised without a wallet and did nothing
C9_Witness ==
    /\ out.dispatched /\ out.line = <<" ">> \o DEPLOY \o <<" ">>
    /\ ~connected
    /\ out.matched /\ out.published = <<>>

\* C10: a line that trims to "build" (to "connect") publishes exactly one
\* state-change signal, buildStart (walletConnectOrSetupStart), publishes and
\* schedules no terminal-enable, and is matched: the session stays Dispatching.
C10_BuildConnectSignalOnly ==
    /\ (out.dispatched /\ trim(out.line) = BUILD) =>
          out.published = <<Signal(EVT_NAME_TERMINAL_STATE, <<"buildStart">>)>>
    /\ (out.dispatched /\ trim(out.line) = CONNECT) =>
          out.published =
              <<Signal(EVT_NAME_TERMINAL_STATE, <<"walletConnectOrSetupStart">>)>>
    /\ (out.dispatched /\ trim(out.line) \in {BUILD, CONNECT}) =>
          /\ out.matched
          /\ ~EnablePublished
          /\ out.scheduled = 0 /\ reenableTimers = 0 /\ enableTimers = 0
          /\ ~active

\* a padded build was submitted and the session waits for its caller
C10_Witness ==
    /\ out.dispatched /\ out.line = <<" ">> \o BUILD \o <<" ">>
    /\ Len(out.published) = 1
    /\ ~active /\ input = <<>>

\* C11: a line that trims to "help" publishes one terminal-log signal carrying
\* the help text, then one terminal-enable signal, and nothing else: no
\* state-change and no load-backend signal, no backend call; it is matched.
C11_HelpLogsThenEnables ==
    (out.dispatched /\ trim(out.line) = HELP) =>
        /\ out.published = <<Signal(EVT_NAME_TERMINAL_LOG, HELP_TEXT),
                             Signal(EVT_NAME_TERMINAL_ENABLE, <<"enabled">>)>>
        /\ out.invoked = <<>> /\ out.scheduled = 0
        /\ out.matched

\* a padded help was submitted and answered
C11_Witness ==
    /\ out.dispatched /\ out.line = <<" ">> \o HELP
    /\ Len(out.published) = 2
    /\ out.matched

\* the first whitespace-delimited token of a trimmed line
FirstToken(s) ==
    LET ws == {i \in 1..Len(s) : s[i] \in {" ", "\t", NL}}
    IN  IF ws = {} THEN s
        ELSE SubSeq(s, 1, (CHOOSE i \in ws : \A j \in ws : i <= j) - 1)

\* C12: a line is matched if and only if it trims to help, build, connect or
\* deploy, or its first whitespace-delimited token is solana; a line that is
\* not matched publishes no signal.
C12_MatchedIffReserved ==
    out.dispatched =>
        /\ out.matched <=>
              \/ trim(out.line) \in {HELP, BUILD, CONNECT, DEPLOY}
              \/ FirstToken(trim(out.line)) = SOLANA
        /\ ~out.matched => out.published = <<>>

\* a method of the session other than open() and enable(), or the callback of
\* an earlier enable()
ClosedOp ==
    \/ \E m \in Messages : TermPrint(m) \/ TermPrintln(m)
    \/ \E l \in RunLines : RunCommand(l)
    \/ RunLastCmd
    \/ \E d \in PasteData : Paste(d)
    \/ Clear
    \/ EnableTimeout

\* C13: while isOpen is false no operation of the session changes the
\* InputLine, the History or the display, and none raises an error.
C13_ClosedNoEffect ==
    [][(~isOpen /\ ClosedOp) =>
          /\ UNCHANGED <<input, cursor, history, cur>>
          /\ scroll' = <<>>
          /\ out' # out => ~out'.threw]_vars

\* an event delivered by the surface or by the timer queue
LaterEvent ==
    \/ KeyChar("a") \/ KeyLeft
    \/ \E z \in Sizes : Resize(z)
    \/ FitTimeout
    \/ EnableTimeout
    \/ ReenableTimeout

\* C14: after destroy() no event that fires later changes the active flag,
\* the InputLine or the History, or writes to the display.
C14_DestroyedIsInert ==
    [][(destroyed /\ LaterEvent) =>
          /\ UNCHANGED <<active, input, cursor, history, cur>>
          /\ scroll' = <<>>]_vars

\* C15: every character of the InputLine, and of the line rendered for it
\* while Prompting, is one isCharValid accepts, whether it came from a key or
\* from a paste.
C15_OnlyValidCharacters ==
    /\ \A i \in DOMAIN input : isCharValid(input[i])
    /\ (isOpen /\ active) => \A i \in DOMAIN cur : isCharValid(cur[i])

\* C16: convertErrorMessage never throws, whatever the message, a message of
\* fewer colon-delimited segments than the extraction reads included.
C16_ConvertNeverThrows == diag.op = "convertErrorMessage" => ~diag.threw

\* the first entry of PROGRAM_ERROR whose hex suffix ends the message, 0 if none
HexClass(msg) ==
    LET hit == {i \in DOMAIN PROGRAM_ERROR :
                   endsWith(msg, <<"0", "x">> \o toLowerCase(PROGRAM_ERROR[i].key))}
    IN  IF hit = {} THEN 0 ELSE CHOOSE i \in hit : \A j \in hit : i <= j
\* the text of the first entry of the table whose key the message holds, or
\* is, UNDEF if there is none
TextOf(table, msg, exact) ==
    LET hit == {i \in DOMAIN table :
                   IF exact THEN msg = table[i].key ELSE includes(msg, table[i].key)}
    IN  IF hit = {} THEN UNDEF
        ELSE table[CHOOSE i \in hit : \A j \in hit : i <= j].text

PlainTrailer(text) ==
    /\ includes(text, FOR_MORE)
    /\ indexOf(text, FOR_MORE, indexOf(text, FOR_MORE, 0) + 1) = -1
    /\ ~includes(text, HOME) /\ ~includes(text, UUID)
    /\ ~includes(text, COMPILING) /\ ~includes(text, FINISHED_RELEASE)
\* the text without its trailer line: from the marker through the end of line
TrailerRemoved(text) ==
    LET i == indexOf(text, FOR_MORE, 0)
        j == indexOf(text, <<NL>>, i)
    IN  SubSeq(text, 1, i) \o (IF j = -1 THEN <<>> ELSE SubSeq(text, j + 2, Len(text)))

\* C18: for a text holding the "For more" trailer editStderr returns the text
\* with the trailer line removed and every other character kept once and in
\* order, also when the trailer is the last line and has no newline; it never
\* throws.
C18_TrailerRemoved ==
    (diag.op = "editStderr" /\ PlainTrailer(diag.arg)) =>
        ~diag.threw /\ diag.res = TrailerRemoved(diag.arg)

\* C19: the reflow callback writes to the display only if the session is
\* Prompting and the rendered line does not start with the prompt; the line is
\* then the prompt followed by the InputLine, which is unchanged; in every
\* other case the callback changes nothing.
C19_ReflowRedrawsOnce ==
    [][(FitTimeout /\ isOpen) =>
        IF active /\ ~ttyGetInputStartsWithPrompt(S)
        THEN cur' = PROMPT \o input /\ input' = input /\ scroll' = <<>>
        ELSE /\ scroll' = <<>>
             /\ UNCHANGED <<isOpen, active, input, cursor, history, histCursor,
                            saved, cur, cols, rows>>]_vars

\* C20: runLastCmd() on an empty History submits nothing and dispatches
\* nothing, and leaves the InputLine, the History and the session state as
\* they are.
C20_RunLastCmdNeedsHistory ==
    [][(RunLastCmd /\ isOpen /\ active /\ history = <<>>) =>
          /\ UNCHANGED <<isOpen, active, input, cursor, history, histCursor>>
          /\ ~out'.dispatched]_vars

\* a terminal-enable, state-change or load-backend signal was published
LifecyclePublished ==
    \E i \in DOMAIN out.published :
        out.published[i].evt \in {EVT_NAME_TERMINAL_ENABLE, EVT_NAME_TERMINAL_STATE,
                                  EVT_NAME_LOAD_WASM}

\* C21: every line parseCommand reports as matched publishes a lifecycle
\* signal (terminal-enable, state-change, load-backend) or schedules a
\* re-enable, also "deploy" and the loaded backend command without a connected
\* wallet: no recognised command leaves the session Dispatching with no signal
\* published and no re-enable scheduled.
C21_MatchedSignalsOrSchedules ==
    (out.dispatched /\ out.matched) => (LifecyclePublished \/ out.scheduled > 0)

\* C22: with no candy machine in the cache, the new candy machine key is in
\* the cache and the sync of the cache file is done before the creation of the
\* candy machine is attempted: once it is attempted, also when it failed, the
\* cache and its file hold the key.
C22_KeySavedBeforeCreate ==
    (deploy.pc # "idle" /\ "create" \in deploy.chain) =>
        (deploy.cache.candyMachine = "new" /\ deploy.fileCandy = "new")

\* the creation of the candy machine failed and the file holds its key
C22_Witness ==
    /\ deploy.pc = "thrown" /\ deploy.error = "chain"
    /\ "create" \in deploy.chain
    /\ deploy.fileCandy = "new"

\* the cache has no items, an item lacks its name or its metadata link, or the
\* config size is not the number of cache items without the collection item
InvalidCache ==
    LET items == deploy.cache.items IN
    \/ DOMAIN items = {}
    \/ \E i \in DOMAIN items : ~items[i].name \/ ~items[i].metadata_link
    \/ deploy.size # Cardinality(DOMAIN items \ {COLLECTION})

\* C23: with such a cache processDeploy throws before any operation on the
\* chain (collection, candy machine, config lines) and before any write of
\* the cache.
C23_InvalidCacheThrowsFirst ==
    (deploy.pc # "idle" /\ InvalidCache) =>
        /\ deploy.pc \in {"start", "thrown"}
        /\ deploy.chain = {}
        /\ ~deploy.cacheWritten
        /\ deploy.synced /\ deploy.fileCandy = deploy.cache.candyMachine

\* a complete cache with one item more in the config was refused
C23_Witness ==
    /\ deploy.pc = "thrown" /\ deploy.error = "count"
    /\ deploy.chain = {}
    /\ Cardinality(DOMAIN deploy.cache.items) > ChunkSize + 1

\* no chunk was submitted twice, and each by the worker its number names
SubmittedByItsWorker ==
    \A c \in DOMAIN deploy.submitted :
        \/ deploy.submitted[c] = <<>>
        \/ deploy.submitted[c] = <<(c - 1) % CONCURRENT>>

\* every worker has left its loop and every chunk was submitted once
WorkersDone ==
    /\ deploy.pc \in {"finalSync", "done", "thrown"}
    /\ \A i \in DOMAIN deploy.wj : deploy.wj[i] = -1
    /\ DOMAIN deploy.submitted = DOMAIN deploy.configLineChunks
    /\ \A c \in DOMAIN deploy.submitted : Len(deploy.submitted[c]) = 1
    /\ deploy.progressCount = Len(deploy.configLineChunks)

\* C24: whatever the order in which the inserts settle and whichever fail,
\* each chunk is submitted once, by worker (chunk mod 8); all workers
\* terminate, and then the progress counter is the number of chunks.
C24_EachChunkOnce ==
    /\ [](deploy.pc \in {"workers", "finalSync"} => SubmittedByItsWorker)
    /\ [](deploy.pc = "finalSync" => WorkersDone)
    /\ (deploy.pc = "workers" ~> WorkersDone)

\* the nine chunks are written, the last by worker 0, with a failure among them
C24_Witness ==
    /\ deploy.pc = "finalSync"
    /\ deploy.progressCount > CONCURRENT
    /\ deploy.submitted[CONCURRENT + 1] = <<0>>
    /\ deploy.failed # {}

\* the chunks with an item marked onChain
MarkedChunks ==
    {c \in 0..(Len(deploy.configLineChunks) - 1) :
        \E k \in DOMAIN deploy.configLineChunks[c + 1] :
            deploy.cache.items[deploy.configLineChunks[c + 1][k]].onChain}

\* C25: an item is marked onChain only after the insert of its chunk
\* succeeded, no item of a chunk whose insert failed is marked, the error
\* counter is the number of failed chunks, and processDeploy throws for it
\* only with the periodic save cancelled and the final sync of the cache done
\* (and does throw when the counter is not 0).
C25_MarkedOnlyInserted ==
    deploy.pc \in {"workers", "finalSync", "done", "thrown"} =>
        /\ MarkedChunks \subseteq deploy.inserted
        /\ MarkedChunks \cap deploy.failed = {}
        /\ deploy.errorCount = Cardinality(deploy.failed)
        /\ (deploy.pc = "thrown" /\ deploy.error = "insertErrors") =>
              (deploy.errorCount # 0 /\ ~deploy.interval /\ deploy.synced)
        /\ (deploy.pc = "done" /\ deploy.configLineChunks # <<>>) =>
              deploy.errorCount = 0

\* some inserts succeeded, some failed, and processDeploy threw for them
C25_Witness ==
    /\ deploy.pc = "thrown" /\ deploy.error = "insertErrors"
    /\ deploy.inserted # {} /\ deploy.failed # {}
    /\ deploy.errorCount = Cardinality(deploy.failed)

====
